---- MODULE Spec2Model ----
(***************************************************************************)
(* Pseudo-terminal session manager of src-tauri/src/pty.rs: the three      *)
(* mutex-guarded slots of PtyState, the commands spawn_pty, write_pty,     *)
(* resize_pty and kill_pty stepping from one lock acquisition to the next, *)
(* the reader thread started by spawn_pty, and the shell processes.        *)
(* Then the sidebar manager of src-tauri/src/autohide: AutohideManager,    *)
(* its WindowController and the window they move.  Then the speech         *)
(* recognition of src-tauri/src/speech: SpeechManager, the recognizer it   *)
(* holds and the recognition tasks that call back, and the session listing *)
(* of src-tauri/src/claude_logs.rs.                                        *)
(***************************************************************************)
EXTENDS Integers, FiniteSets, Sequences, TLC

\* ------------------------------------------------------------------ bounds
MaxSessions == 2
\* Chunks the recorded session delivers before its stream ends.
MaxChunks == 2

\* Two threads invoke the commands, so that two calls can overlap.
Callers == {"t1", "t2"}
Sessions == 1..MaxSessions
Sizes == {"80x24", "120x40"}
NoSize == "none"
Free == <<"free", 0>>

VARIABLES
    slotPair,    \* PtyState.pty_pair: 0 is None, s is Some(pair of session s)
    slotWriter,  \* PtyState.writer
    slotChild,   \* PtyState.child
    childLock,   \* holder of the PtyState.child mutex
    size,        \* window size of each open PTY pair
    child,       \* OS process of each session: none, alive, exited (zombie), reaped
    signalled,   \* child.kill() has been called on the handle
    waits,       \* number of child.wait() calls completed on the handle
    handle,      \* the Box<dyn Child>: none, held, dropped (after reaping), leaked (dropped unreaped)
    rpc,         \* position of each session's reader thread
    lastStarted, \* session of the most recently started reader thread
    nextId,      \* next unused session number
    cpc,         \* position of each caller thread
    cnew,        \* session a caller's spawn_pty is building
    ctaken,      \* child a caller took out of the slot
    lastRet,     \* what the last command to return returned; none while a call runs
    logged,      \* history: the session whose I/O is recorded, 0 when none is
    written,     \* history: the initial command of that session: none, pending, written
    reads,       \* history: the chunks its reader has read, in order
    events,      \* history: the chunks its reader has emitted as pty-output, in order
    enabled,            \* AutohideConfig.enabled
    edge,               \* AutohideConfig.edge
    state,              \* AutohideManager.state: Visible or Hidden
    original_position,  \* WindowController.original_position
    window_size,        \* WindowController.window_size: the cached width, 0 is None
    position,           \* outer position <<x, y>> of the window on screen
    home,               \* history: where the window was when autohide went from off to on
    ahRet,              \* what the last AutohideManager call returned
    speech_state,       \* SpeechManager.state
    language,           \* SpeechManager.config.language
    recognizer,         \* SpeechManager.recognizer: NoRecognizer is None
    result_callback,    \* the shared result_callback cell of each wrapper: TRUE is Some
    task,               \* the recognition tasks started for each wrapper: none, silent, heard
    wrappers,           \* number of SpeechRecognizerWrapper values constructed
    results,            \* number of speech-recognition-result events emitted
    stopped,            \* history: stop_recognition returned Ok and no start_recognition has since
    spRet,              \* what the last SpeechManager call returned
    files,              \* the .jsonl files of the project directory, in read_dir order
    latest              \* what the last get_latest_session_for_cwd call returned

slots == <<slotPair, slotWriter, slotChild>>
procs == <<child, signalled, waits, handle>>
readers == <<rpc, lastStarted>>
callers == <<cpc, cnew, ctaken, lastRet, nextId>>
logs == <<written, reads, events>>
pty == <<slotPair, slotWriter, slotChild, childLock, size, child, signalled, waits,
         handle, rpc, lastStarted, nextId, cpc, cnew, ctaken, lastRet, logs>>
autohide == <<enabled, edge, state, original_position, window_size, position, home, ahRet>>
speech == <<speech_state, language, recognizer, result_callback, task, wrappers, results,
           stopped, spRet>>
sessions == <<files, latest>>
\* What no step of the session manager changes.
outside == <<logged, autohide, speech, sessions>>
vars == <<pty, logged, autohide, speech, sessions>>

NoRet == [op |-> "none", res |-> "none", sess |-> 0, err |-> "none"]
Ok(op, s) == [op |-> op, res |-> "Ok", sess |-> s, err |-> "none"]
Err(op, e) == [op |-> op, res |-> "Err", sess |-> 0, err |-> e]

NoPos == <<>>
NoAhRet == [op |-> "none", res |-> "none", val |-> FALSE]
\* AutohideManager::new(): AutohideConfig::default(), WindowState::Visible and
\* WindowController::new() with an empty cache.
AutohideInit ==
    /\ enabled = FALSE
    /\ edge = "Left"
    /\ state = "Visible"
    /\ original_position = NoPos
    /\ window_size = 0
    /\ home = NoPos
    /\ ahRet = NoAhRet

\* ------------------------------------------------------- speech recognition
\* Wrappers the manager constructs before the model stops constructing more.
MaxRecognizers == 2
\* speech-recognition-result events followed.
MaxResults == 2

Recognizers == 1..MaxRecognizers
Languages == {"ja-JP", "en-US"}
NoRecognizer ==
    [id |-> 0, locale |-> "none", is_listening |-> FALSE, tap |-> FALSE, engine |-> FALSE,
     recognition_request |-> FALSE, recognition_task |-> FALSE]
NoSpRet == [op |-> "none", res |-> "none", from |-> "none", val |-> "none"]
\* SpeechManager::new(): SpeechConfig::default(), Idle and no recognizer.
SpeechInit ==
    /\ speech_state = "Idle"
    /\ language = "ja-JP"
    /\ recognizer = NoRecognizer
    /\ result_callback = [g \in Recognizers |-> FALSE]
    /\ task = [g \in Recognizers |-> "none"]
    /\ wrappers = 0
    /\ results = 0
    /\ stopped = FALSE
    /\ spRet = NoSpRet

\* --------------------------------------------------------- session listing
\* Session files in the project directory.
MaxFiles == 2
\* list_claude_sessions summarises a file from its first lines: lines().take(10).
SummaryLines == 10

NoLatest == [res |-> "none", id |-> 0, timestamp |-> 0]
\* No project directory has been listed.
SessionsInit ==
    /\ files = <<>>
    /\ latest = NoLatest

\* PtyState::default()
PtyInit ==
    /\ slotPair = 0 /\ slotWriter = 0 /\ slotChild = 0
    /\ childLock = Free
    /\ size = [s \in Sessions |-> NoSize]
    /\ child = [s \in Sessions |-> "none"]
    /\ signalled = [s \in Sessions |-> FALSE]
    /\ waits = [s \in Sessions |-> 0]
    /\ handle = [s \in Sessions |-> "none"]
    /\ rpc = [s \in Sessions |-> "none"]
    /\ lastStarted = 0
    /\ nextId = 1
    /\ cpc = [c \in Callers |-> "idle"]
    /\ cnew = [c \in Callers |-> 0]
    /\ ctaken = [c \in Callers |-> 0]
    /\ lastRet = NoRet
    /\ written = "none"
    /\ reads = <<>>
    /\ events = <<>>

\* Where the window is when the application starts.
StartPositions == {<<20, 50>>, <<40, 70>>}
Init ==
    /\ PtyInit
    /\ logged = 0
    /\ AutohideInit
    /\ position = <<20, 50>>
    /\ SpeechInit
    /\ SessionsInit

Last(q) == q[Len(q)]

\* ------------------------------------------------------------ child handle
\* Dropping a Box<dyn Child>: the process is neither signalled nor waited on.
DropChild(h, s) == IF s = 0 THEN h
                   ELSE [h EXCEPT ![s] = IF child[s] = "reaped" THEN "dropped" ELSE "leaked"]

\* state.child.lock().unwrap().take() of `if let Some(mut child) = ...`: the guard
\* lives to the end of the if-let, so the mutex stays held through kill and wait.
TakeChild(c, thenPc, elsePc) ==
    /\ childLock = Free
    /\ IF slotChild # 0
         THEN /\ ctaken' = [ctaken EXCEPT ![c] = slotChild]
              /\ slotChild' = 0
              /\ childLock' = <<"caller", c>>
              /\ cpc' = [cpc EXCEPT ![c] = thenPc]
         ELSE /\ ctaken' = [ctaken EXCEPT ![c] = 0]
              /\ cpc' = [cpc EXCEPT ![c] = elsePc]
              /\ UNCHANGED <<slotChild, childLock>>

\* let _ = child.kill();
KillChild(c, nextPc) ==
    /\ signalled' = [signalled EXCEPT ![ctaken[c]] = TRUE]
    /\ cpc' = [cpc EXCEPT ![c] = nextPc]

\* Mutation of WaitChild: the wait is left out, the taken handle is dropped as it is.
WaitChildSkipped(c, nextPc) ==
    /\ handle' = DropChild(handle, ctaken[c])
    /\ childLock' = Free
    /\ cpc' = [cpc EXCEPT ![c] = nextPc]
    /\ UNCHANGED <<child, waits>>

\* Mutation of WaitChild: the guard of the child mutex lives to the end of the call.
WaitChildKeepsLock(c, nextPc) ==
    /\ child[ctaken[c]] \in {"exited", "reaped"}
    /\ child' = [child EXCEPT ![ctaken[c]] = "reaped"]
    /\ waits' = [waits EXCEPT ![ctaken[c]] = @ + 1]
    /\ handle' = [handle EXCEPT ![ctaken[c]] = "dropped"]
    /\ cpc' = [cpc EXCEPT ![c] = nextPc]
    /\ UNCHANGED childLock

\* let _ = child.wait(); then the taken handle goes out of scope and the guard unlocks.
WaitChild(c, nextPc) ==
    /\ child[ctaken[c]] \in {"exited", "reaped"}
    /\ child' = [child EXCEPT ![ctaken[c]] = "reaped"]
    /\ waits' = [waits EXCEPT ![ctaken[c]] = @ + 1]
    /\ handle' = [handle EXCEPT ![ctaken[c]] = "dropped"]
    /\ childLock' = Free
    /\ cpc' = [cpc EXCEPT ![c] = nextPc]

\* ---------------------------------------------------------------- spawn_pty
\* The call is numbered when it starts; the number names the PTY pair, writer, child
\* and reader the call goes on to create. No call starts once MaxSessions are used.
SpawnCall(c) ==
    /\ cpc[c] = "idle"
    /\ nextId <= MaxSessions
    /\ cpc' = [cpc EXCEPT ![c] = "sp_lock"]
    /\ cnew' = [cnew EXCEPT ![c] = nextId]
    /\ nextId' = nextId + 1
    /\ lastRet' = NoRet
    /\ UNCHANGED <<outside, logs, slots, childLock, size, procs, readers, ctaken>>

\* Mutation of SpawnTake: spawn_pty does not look at the installed child at all.
SpawnTakeSkipped(c) ==
    /\ cpc[c] = "sp_lock"
    /\ cpc' = [cpc EXCEPT ![c] = "sp_open"]
    /\ UNCHANGED <<outside, logs, slots, childLock, size, procs, readers, cnew, ctaken, lastRet, nextId>>

SpawnTake(c) ==
    /\ cpc[c] = "sp_lock"
    /\ TakeChild(c, "sp_kill", "sp_open")
    /\ UNCHANGED <<outside, logs, slotPair, slotWriter, size, procs, readers, cnew, lastRet,
                   nextId>>

SpawnKill(c) ==
    /\ cpc[c] = "sp_kill"
    /\ KillChild(c, "sp_wait")
    /\ UNCHANGED <<outside, logs, slots, childLock, size, child, waits, handle, readers, cnew,
                   ctaken, lastRet, nextId>>

SpawnWait(c) ==
    /\ cpc[c] = "sp_wait"
    /\ WaitChild(c, "sp_open")
    /\ UNCHANGED <<outside, logs, slots, size, signalled, readers, cnew, ctaken, lastRet,
                   nextId>>

\* Lines 39-58, which touch only locals: openpty, spawn_command, try_clone_reader,
\* take_writer and the write of the initial command. Each can fail, and `?` then
\* returns Err, dropping the locals made so far: a failure after spawn_command drops
\* the new child's handle with its shell running.
SpawnErrors == {"openpty", "spawn_command", "try_clone_reader", "take_writer", "write"}

\* Mutation of SpawnCreate: the initial command is not written before the session is
\* installed and its reader started.
SpawnCreateCommandUnwritten(c) ==
    /\ cpc[c] = "sp_open"
    /\ \E sz \in Sizes : size' = [size EXCEPT ![cnew[c]] = sz]
    /\ child' = [child EXCEPT ![cnew[c]] = "alive"]
    /\ handle' = [handle EXCEPT ![cnew[c]] = "held"]
    /\ \E cmd \in BOOLEAN :
         written' = IF logged = cnew[c] /\ cmd THEN "pending" ELSE written
    /\ cpc' = [cpc EXCEPT ![c] = "sp_pair"]
    /\ UNCHANGED <<outside, reads, events, slots, childLock, signalled, waits, readers,
                   nextId, cnew, ctaken, lastRet>>

SpawnCreate(c) ==
    /\ cpc[c] = "sp_open"
    /\ \/ /\ \E sz \in Sizes : size' = [size EXCEPT ![cnew[c]] = sz]
          /\ child' = [child EXCEPT ![cnew[c]] = "alive"]
          /\ handle' = [handle EXCEPT ![cnew[c]] = "held"]
          /\ \E cmd \in BOOLEAN :
               written' = IF logged = cnew[c] /\ cmd THEN "written" ELSE written
          /\ cpc' = [cpc EXCEPT ![c] = "sp_pair"]
          /\ UNCHANGED <<cnew, ctaken, lastRet>>
       \/ /\ \E e \in SpawnErrors :
               /\ lastRet' = Err("spawn", e)
               /\ IF e \in {"openpty", "spawn_command"}
                    THEN UNCHANGED <<child, handle>>
                    ELSE /\ child' = [child EXCEPT ![cnew[c]] = "alive"]
                         /\ handle' = [handle EXCEPT ![cnew[c]] = "leaked"]
          /\ cpc' = [cpc EXCEPT ![c] = "idle"]
          /\ cnew' = [cnew EXCEPT ![c] = 0]
          /\ ctaken' = [ctaken EXCEPT ![c] = 0]
          /\ UNCHANGED <<size, written>>
    /\ UNCHANGED <<outside, reads, events, slots, childLock, signalled, waits, readers, nextId>>

\* *state.pty_pair.lock().unwrap() = Some(pair);  the pair it replaces is dropped
SpawnSetPair(c) ==
    /\ cpc[c] = "sp_pair"
    /\ slotPair' = cnew[c]
    /\ size' = IF slotPair = 0 THEN size ELSE [size EXCEPT ![slotPair] = NoSize]
    /\ cpc' = [cpc EXCEPT ![c] = "sp_writer"]
    /\ UNCHANGED <<outside, logs, slotWriter, slotChild, childLock, procs, readers, cnew, ctaken,
                   lastRet, nextId>>

\* *state.writer.lock().unwrap() = Some(writer);
SpawnSetWriter(c) ==
    /\ cpc[c] = "sp_writer"
    /\ slotWriter' = cnew[c]
    /\ cpc' = [cpc EXCEPT ![c] = "sp_child"]
    /\ UNCHANGED <<outside, logs, slotPair, slotChild, childLock, size, procs, readers, cnew,
                   ctaken, lastRet, nextId>>

\* *state.child.lock().unwrap() = Some(child);  a child still in the slot is dropped
SpawnSetChild(c) ==
    /\ cpc[c] = "sp_child"
    /\ childLock = Free
    /\ slotChild' = cnew[c]
    /\ handle' = DropChild(handle, slotChild)
    /\ cpc' = [cpc EXCEPT ![c] = "sp_thread"]
    /\ UNCHANGED <<outside, logs, slotPair, slotWriter, childLock, size, child, signalled, waits, readers, cnew, ctaken, lastRet, nextId>>

\* Mutation of SpawnThread: spawn_pty returns Ok without starting the reader thread.
SpawnThreadNoReader(c) ==
    /\ cpc[c] = "sp_thread"
    /\ lastRet' = Ok("spawn", cnew[c])
    /\ cnew' = [cnew EXCEPT ![c] = 0]
    /\ ctaken' = [ctaken EXCEPT ![c] = 0]
    /\ cpc' = [cpc EXCEPT ![c] = "idle"]
    /\ UNCHANGED <<outside, logs, slots, childLock, size, procs, readers, nextId>>

\* thread::spawn(move || { ... }); Ok(())
SpawnThread(c) ==
    /\ cpc[c] = "sp_thread"
    /\ rpc' = [rpc EXCEPT ![cnew[c]] = "read"]
    /\ lastStarted' = cnew[c]
    /\ lastRet' = Ok("spawn", cnew[c])
    /\ cnew' = [cnew EXCEPT ![c] = 0]
    /\ ctaken' = [ctaken EXCEPT ![c] = 0]
    /\ cpc' = [cpc EXCEPT ![c] = "idle"]
    /\ UNCHANGED <<outside, logs, slots, childLock, size, procs, nextId>>

\* ----------------------------------------------------------------- kill_pty
KillCall(c) ==
    /\ cpc[c] = "idle"
    /\ cpc' = [cpc EXCEPT ![c] = "k_lock"]
    /\ lastRet' = NoRet
    /\ UNCHANGED <<outside, logs, slots, childLock, size, procs, readers, cnew, ctaken, nextId>>

KillTake(c) ==
    /\ cpc[c] = "k_lock"
    /\ TakeChild(c, "k_kill", "k_pair")
    /\ UNCHANGED <<outside, logs, slotPair, slotWriter, size, procs, readers, cnew, lastRet,
                   nextId>>

KillKill(c) ==
    /\ cpc[c] = "k_kill"
    /\ KillChild(c, "k_wait")
    /\ UNCHANGED <<outside, logs, slots, childLock, size, child, waits, handle, readers, cnew,
                   ctaken, lastRet, nextId>>

KillWait(c) ==
    /\ cpc[c] = "k_wait"
    /\ WaitChild(c, "k_pair")
    /\ UNCHANGED <<outside, logs, slots, size, signalled, readers, cnew, ctaken, lastRet,
                   nextId>>

\* Mutation of KillClearPair: the PTY pair is left in its slot.
KillClearPairSkipped(c) ==
    /\ cpc[c] = "k_pair"
    /\ cpc' = [cpc EXCEPT ![c] = "k_writer"]
    /\ UNCHANGED <<outside, logs, slots, childLock, size, procs, readers, cnew, ctaken, lastRet, nextId>>

\* *state.pty_pair.lock().unwrap() = None;
KillClearPair(c) ==
    /\ cpc[c] = "k_pair"
    /\ slotPair' = 0
    /\ size' = IF slotPair = 0 THEN size ELSE [size EXCEPT ![slotPair] = NoSize]
    /\ cpc' = [cpc EXCEPT ![c] = "k_writer"]
    /\ UNCHANGED <<outside, logs, slotWriter, slotChild, childLock, procs, readers, cnew, ctaken,
                   lastRet, nextId>>

\* Mutation of KillClearWriter: kill_pty returns with the writer left in its slot.
KillClearWriterSkipped(c) ==
    /\ cpc[c] = "k_writer"
    /\ lastRet' = Ok("kill", 0)
    /\ ctaken' = [ctaken EXCEPT ![c] = 0]
    /\ cpc' = [cpc EXCEPT ![c] = "idle"]
    /\ UNCHANGED <<outside, logs, slots, childLock, size, procs, readers, cnew, nextId>>

\* *state.writer.lock().unwrap() = None; Ok(())
KillClearWriter(c) ==
    /\ cpc[c] = "k_writer"
    /\ slotWriter' = 0
    /\ lastRet' = Ok("kill", 0)
    /\ ctaken' = [ctaken EXCEPT ![c] = 0]
    /\ cpc' = [cpc EXCEPT ![c] = "idle"]
    /\ UNCHANGED <<outside, logs, slotPair, slotChild, childLock, size, procs, readers, cnew, nextId>>

\* ---------------------------------------------------------------- write_pty
\* lastRet.sess is the session whose writer received the data, 0 when nothing was written.
WritePty(c) ==
    /\ cpc[c] = "idle"
    /\ IF slotWriter # 0
         THEN \/ lastRet' = Ok("write", slotWriter)
              \/ lastRet' = Err("write", "io")
         ELSE lastRet' = Ok("write", 0)
    /\ UNCHANGED <<outside, logs, slots, childLock, size, procs, readers, cpc, cnew, ctaken, nextId>>

\* --------------------------------------------------------------- resize_pty
\* Mutation of ResizePty: resizing closes the writer of the session.
ResizePtyDropsWriter(c) ==
    /\ cpc[c] = "idle"
    /\ slotPair # 0
    /\ \E sz \in Sizes : size' = [size EXCEPT ![slotPair] = sz]
    /\ lastRet' = Ok("resize", slotPair)
    /\ slotWriter' = 0
    /\ UNCHANGED <<outside, logs, slotPair, slotChild, childLock, procs, readers, cpc, cnew,
                   ctaken, nextId>>

\* lastRet.sess is the session whose PTY was resized, 0 when nothing was resized.
ResizePty(c) ==
    /\ cpc[c] = "idle"
    /\ IF slotPair # 0
         THEN \/ \E sz \in Sizes :
                   /\ size' = [size EXCEPT ![slotPair] = sz]
                   /\ lastRet' = Ok("resize", slotPair)
              \/ /\ lastRet' = Err("resize", "io")
                 /\ UNCHANGED size
         ELSE /\ lastRet' = Ok("resize", 0)
              /\ UNCHANGED size
    /\ UNCHANGED <<outside, logs, slots, childLock, procs, readers, cpc, cnew, ctaken,
                   nextId>>

\* ------------------------------------------------------------ reader thread
\* Mutation of ReadData: the reader takes the child mutex inside its loop and keeps it
\* over the next read.
ReadDataLocked(s) ==
    /\ rpc[s] = "read"
    /\ childLock = Free
    /\ childLock' = <<"reader", s>>
    /\ UNCHANGED <<outside, logs, slots, size, procs, readers, callers>>

\* reader.read(&mut buffer) returning Ok(n), n > 0
ReadData(s) ==
    /\ rpc[s] = "read"
    /\ logged = s => Len(reads) < MaxChunks
    /\ rpc' = [rpc EXCEPT ![s] = "emit"]
    /\ reads' = IF logged = s THEN Append(reads, Len(reads) + 1) ELSE reads
    /\ UNCHANGED <<outside, written, events, slots, childLock, size, procs, lastStarted, callers>>

\* Ok(_) => break (end of stream, once the shell is gone) and Err(e) => break
ReadEnd(s) ==
    /\ rpc[s] = "read"
    /\ rpc' = [rpc EXCEPT ![s] = "lock"]
    /\ UNCHANGED <<outside, logs, slots, childLock, size, procs, lastStarted,
                   callers>>

\* Mutation of Emit: the chunk is delivered ahead of the chunks emitted before it.
EmitNewestFirst(s) ==
    /\ rpc[s] = "emit"
    /\ rpc' = [rpc EXCEPT ![s] = "read"]
    /\ events' = IF logged = s THEN <<Last(reads)>> \o events ELSE events
    /\ UNCHANGED <<outside, written, reads, slots, childLock, size, procs, lastStarted, callers>>

\* window.emit("pty-output", data): Ok continues the loop, Err breaks out of it
Emit(s) ==
    /\ rpc[s] = "emit"
    /\ \/ /\ rpc' = [rpc EXCEPT ![s] = "read"]
          /\ events' = IF logged = s THEN Append(events, Last(reads)) ELSE events
       \/ /\ rpc' = [rpc EXCEPT ![s] = "lock"]
          /\ UNCHANGED events
    /\ UNCHANGED <<outside, written, reads, slots, childLock, size, procs, lastStarted, callers>>

\* if let Some(child) = child_ref.lock().unwrap().as_mut(): child_ref is the slot
\* itself, so the reader finds whichever child is installed when it gets the mutex.
ReaderLock(s) ==
    /\ rpc[s] = "lock"
    /\ childLock = Free
    /\ IF slotChild # 0
         THEN /\ childLock' = <<"reader", s>>
              /\ rpc' = [rpc EXCEPT ![s] = "wait"]
         ELSE /\ rpc' = [rpc EXCEPT ![s] = "done"]
              /\ UNCHANGED childLock
    /\ UNCHANGED <<outside, logs, slots, size, procs, lastStarted, callers>>

\* let _ = child.wait(); with the mutex held; the child stays in the slot
ReaderWait(s) ==
    /\ rpc[s] = "wait"
    /\ child[slotChild] \in {"exited", "reaped"}
    /\ child' = [child EXCEPT ![slotChild] = "reaped"]
    /\ waits' = [waits EXCEPT ![slotChild] = @ + 1]
    /\ childLock' = Free
    /\ rpc' = [rpc EXCEPT ![s] = "done"]
    /\ UNCHANGED <<outside, logs, slots, size, signalled, handle, lastStarted,
                   callers>>

\* ------------------------------------------------------------- shell process
\* The shell exits: after the kill signal, or on its own (the user types exit).
ChildExit(s) ==
    /\ child[s] = "alive"
    /\ child' = [child EXCEPT ![s] = "exited"]
    /\ UNCHANGED <<outside, logs, slots, childLock, size, signalled, waits, handle, readers,
                   callers>>

\* --------------------------------------------------------------- the system
\* The steps of a call that is under way.
Step(c) ==
    \/ SpawnTake(c) \/ SpawnKill(c) \/ SpawnWait(c) \/ SpawnCreate(c)
    \/ SpawnSetPair(c) \/ SpawnSetWriter(c) \/ SpawnSetChild(c)
    \/ SpawnThread(c)
    \/ KillTake(c) \/ KillKill(c) \/ KillWait(c) \/ KillClearPair(c) \/ KillClearWriter(c)

Background ==
    \E s \in Sessions :
        \/ ReadData(s) \/ ReadEnd(s) \/ Emit(s) \/ ReaderLock(s) \/ ReaderWait(s)
        \/ ChildExit(s)

\* Commands may be invoked from any thread: calls overlap.
Next ==
    \/ \E c \in Callers :
           SpawnCall(c) \/ KillCall(c) \/ WritePty(c) \/ ResizePty(c) \/ Step(c)
    \/ Background

Spec == Init /\ [][Next]_vars

\* Commands invoked one at a time: a call starts only when no other call is running.
\* Reader threads and shells still run concurrently with the call.
Serial(c) == \A d \in Callers \ {c} : cpc[d] = "idle"
SerialSpawn(c) == Serial(c) /\ SpawnCall(c)
SerialKill(c) == Serial(c) /\ KillCall(c)
SerialWrite(c) == Serial(c) /\ WritePty(c)
SerialResize(c) == Serial(c) /\ ResizePty(c)

NextSerial ==
    \/ \E c \in Callers :
           SerialSpawn(c) \/ SerialKill(c) \/ SerialWrite(c) \/ SerialResize(c) \/ Step(c)
    \/ Background

SpecSerial == Init /\ [][NextSerial]_vars

\* The same, with the I/O of one of the sessions recorded.
InitLogged ==
    /\ PtyInit
    /\ logged \in Sessions
    /\ AutohideInit
    /\ position = <<20, 50>>
    /\ SpeechInit
    /\ SessionsInit

SpecLogged == InitLogged /\ [][NextSerial]_vars

\* ========================================================= AutohideManager
\* The main display (CGDisplay::main().bounds(): origin.x is 0) and the window.
MonitorWidth == 200
WindowWidth == 60
VisiblePixels == 8
DefaultY == 100
Edges == {"Left", "Right"}

AhRet(op, res, val) == [op |-> op, res |-> res, val |-> val]

\* self.original_position.map(|p| p.y).unwrap_or(100)
PosY(orig) == IF orig = NoPos THEN DefaultY ELSE orig[2]

\* WindowController::calculate_hidden_position, once window_size is known
calculate_hidden_position(e, orig, wsz) ==
    IF e = "Left" THEN <<0 - wsz + VisiblePixels, PosY(orig)>>
                  ELSE <<(0 + MonitorWidth) - VisiblePixels, PosY(orig)>>

\* WindowController::calculate_visible_position, once window_size is known
calculate_visible_position(e, orig, wsz) ==
    IF e = "Left" THEN <<0, PosY(orig)>>
                  ELSE <<(0 + MonitorWidth) - wsz, PosY(orig)>>

\* AutohideManager::hide with config.enabled en, config.edge e and the cache
\* (orig, wsz); setOk is whether window.set_position succeeds. The result is what
\* the call returns and where it leaves the window and the state.
hide(en, e, orig, wsz, setOk) ==
    IF ~en THEN [res |-> "Ok", position |-> position, state |-> state]
    ELSE IF wsz = 0 \/ ~setOk
           THEN [res |-> "Err", position |-> position, state |-> state]
           ELSE [res |-> "Ok", position |-> calculate_hidden_position(e, orig, wsz),
                 state |-> "Hidden"]

\* AutohideManager::show
show(en, e, orig, wsz, setOk) ==
    IF ~en THEN [res |-> "Ok", position |-> position, state |-> state]
    ELSE IF wsz = 0 \/ ~setOk
           THEN [res |-> "Err", position |-> position, state |-> state]
           ELSE [res |-> "Ok", position |-> calculate_visible_position(e, orig, wsz),
                 state |-> "Visible"]

is_visible == state = "Visible"

\* AutohideManager::enable: config.enabled = true, cache_window_state (outer_position
\* and outer_size can each fail), then hide.
Enable ==
    \E posOk, sizeOk, setOk \in BOOLEAN :
        /\ enabled' = TRUE
        /\ original_position' = IF posOk THEN position ELSE NoPos
        /\ window_size' = IF sizeOk THEN WindowWidth ELSE 0
        /\ IF posOk /\ sizeOk
             THEN LET r == hide(TRUE, edge, position, WindowWidth, setOk) IN
                  /\ position' = r.position
                  /\ state' = r.state
                  /\ ahRet' = AhRet("enable", r.res, FALSE)
             ELSE /\ ahRet' = AhRet("enable", "Err", FALSE)
                  /\ UNCHANGED <<position, state>>
        /\ home' = IF enabled THEN home ELSE position
        /\ UNCHANGED <<edge, pty, logged, speech, sessions>>

\* AutohideManager::disable: config.enabled = false, restore_original_position,
\* state = Visible.
Disable ==
    \E setOk \in BOOLEAN :
        /\ enabled' = FALSE
        /\ IF original_position # NoPos /\ ~setOk
             THEN /\ ahRet' = AhRet("disable", "Err", FALSE)
                  /\ UNCHANGED <<original_position, window_size, position, state>>
             ELSE /\ position' = IF original_position # NoPos THEN original_position
                                                             ELSE position
                  /\ original_position' = NoPos
                  /\ window_size' = 0
                  /\ state' = "Visible"
                  /\ ahRet' = AhRet("disable", "Ok", FALSE)
        /\ UNCHANGED <<edge, home, pty, logged, speech, sessions>>

\* AutohideManager::toggle: Ok(true) after show, Ok(false) after hide
Toggle ==
    \E setOk \in BOOLEAN :
        LET r == IF state = "Hidden"
                   THEN show(enabled, edge, original_position, window_size, setOk)
                   ELSE hide(enabled, edge, original_position, window_size, setOk)
        IN /\ position' = r.position
           /\ state' = r.state
           /\ ahRet' = AhRet("toggle", r.res, r.res = "Ok" /\ state = "Hidden")
           /\ UNCHANGED <<enabled, edge, original_position, window_size, home, pty, logged, speech, sessions>>

Show ==
    \E setOk \in BOOLEAN :
        LET r == show(enabled, edge, original_position, window_size, setOk)
        IN /\ position' = r.position
           /\ state' = r.state
           /\ ahRet' = AhRet("show", r.res, FALSE)
           /\ UNCHANGED <<enabled, edge, original_position, window_size, home, pty, logged, speech, sessions>>

Hide ==
    \E setOk \in BOOLEAN :
        LET r == hide(enabled, edge, original_position, window_size, setOk)
        IN /\ position' = r.position
           /\ state' = r.state
           /\ ahRet' = AhRet("hide", r.res, FALSE)
           /\ UNCHANGED <<enabled, edge, original_position, window_size, home, pty, logged, speech, sessions>>

\* AutohideManager::set_edge
SetEdge ==
    \E e \in Edges :
        /\ edge' = e
        /\ ahRet' = AhRet("set_edge", "Ok", FALSE)
        /\ UNCHANGED <<enabled, state, original_position, window_size, position, home,
                       pty, logged, speech, sessions>>

\* The commands of main.rs hold the Mutex<AutohideManager> for the whole call, so the
\* calls happen one at a time.
NextAutohide == Enable \/ Disable \/ Toggle \/ Show \/ Hide \/ SetEdge

InitAutohide ==
    /\ PtyInit
    /\ logged = 0
    /\ AutohideInit
    /\ position \in StartPositions
    /\ SpeechInit
    /\ SessionsInit

SpecAutohide == InitAutohide /\ [][NextAutohide]_vars

\* =========================================================== SpeechManager
\* The commands of main.rs hold the speech_manager mutex for the whole call, so
\* each call is one step.  The result blocks of the recognition tasks run on the
\* framework's queue, between the calls.
SpRet(op, res, from) == [op |-> op, res |-> res, from |-> from, val |-> "none"]

\* SpeechRecognizerWrapper::new(locale), as wrapper number g.
NewWrapper(g, locale) ==
    [id |-> g, locale |-> locale, is_listening |-> FALSE, tap |-> FALSE, engine |-> FALSE,
     recognition_request |-> FALSE, recognition_task |-> FALSE]

\* start_listening on wrapper r, whose callback cell holds cb and whose tasks are tk.
\* The callback is stored, the task created and the tap installed before the audio
\* engine starts; the request, the task and is_listening are stored after it did.
start_listening(r, cb, tk, engineOk) ==
    IF r.is_listening
    THEN [res |-> "Err", rec |-> r, cb |-> cb, task |-> tk]
    ELSE IF ~engineOk
    THEN [res |-> "Err", rec |-> [r EXCEPT !.tap = TRUE], cb |-> TRUE,
          task |-> IF tk = "none" THEN "silent" ELSE tk]
    ELSE [res |-> "Ok",
          rec |-> [r EXCEPT !.tap = TRUE, !.engine = TRUE, !.recognition_request = TRUE,
                            !.recognition_task = TRUE, !.is_listening = TRUE],
          cb |-> TRUE, task |-> "heard"]

\* stop_listening on wrapper r: nothing when it is not listening, else the engine is
\* stopped, the tap removed, request and task ended and dropped, the callback cleared.
stop_listening(r, cb) ==
    IF ~r.is_listening
    THEN [res |-> "Ok", rec |-> r, cb |-> cb]
    ELSE [res |-> "Ok",
          rec |-> [r EXCEPT !.tap = FALSE, !.engine = FALSE, !.recognition_request = FALSE,
                            !.recognition_task = FALSE, !.is_listening = FALSE],
          cb |-> FALSE]

\* start_recognition.  available: SFSpeechRecognizer::isAvailable; engineOk: the audio
\* engine starts; emitOk: the speech-state-changed event is delivered.
StartRecognition ==
    \E available, engineOk, emitOk \in BOOLEAN :
        /\ IF speech_state = "Listening"
           THEN /\ spRet' = SpRet("start_recognition", "Err", "manager")
                /\ UNCHANGED <<speech_state, recognizer, result_callback, task, wrappers,
                               stopped>>
           ELSE IF recognizer = NoRecognizer /\ ~available
           THEN /\ spRet' = SpRet("start_recognition", "Err", "new")
                /\ UNCHANGED <<speech_state, recognizer, result_callback, task, wrappers,
                               stopped>>
           ELSE /\ recognizer = NoRecognizer => wrappers < MaxRecognizers
                /\ LET r == IF recognizer = NoRecognizer
                            THEN NewWrapper(wrappers + 1, language)
                            ELSE recognizer
                       out == start_listening(r, result_callback[r.id], task[r.id], engineOk)
                   IN /\ recognizer' = out.rec
                      /\ wrappers' = IF recognizer = NoRecognizer THEN wrappers + 1 ELSE wrappers
                      /\ result_callback' = [result_callback EXCEPT ![r.id] = out.cb]
                      /\ task' = [task EXCEPT ![r.id] = out.task]
                      /\ IF out.res = "Err"
                         THEN /\ spRet' = SpRet("start_recognition", "Err", "start_listening")
                              /\ UNCHANGED <<speech_state, stopped>>
                         ELSE /\ speech_state' = "Listening"
                              /\ IF emitOk
                                 THEN /\ spRet' = SpRet("start_recognition", "Ok", "none")
                                      /\ stopped' = FALSE
                                 ELSE /\ spRet' = SpRet("start_recognition", "Err", "emit")
                                      /\ UNCHANGED stopped
        /\ UNCHANGED <<language, results, pty, logged, autohide, sessions>>

\* stop_recognition.  emitOk: the speech-state-changed event is delivered.
StopRecognition ==
    \E emitOk \in BOOLEAN :
        /\ IF recognizer = NoRecognizer
           THEN UNCHANGED <<recognizer, result_callback>>
           ELSE LET out == stop_listening(recognizer, result_callback[recognizer.id])
                IN /\ recognizer' = out.rec
                   /\ result_callback' = [result_callback EXCEPT ![recognizer.id] = out.cb]
        /\ speech_state' = "Idle"
        /\ IF emitOk
           THEN /\ spRet' = SpRet("stop_recognition", "Ok", "none")
                /\ stopped' = TRUE
           ELSE /\ spRet' = SpRet("stop_recognition", "Err", "emit")
                /\ UNCHANGED stopped
        /\ UNCHANGED <<language, task, wrappers, results, pty, logged, autohide, sessions>>

\* get_state
GetState ==
    /\ spRet' = [SpRet("get_state", "Ok", "none") EXCEPT !.val = speech_state]
    /\ UNCHANGED <<speech_state, language, recognizer, result_callback, task, wrappers,
                   results, stopped, pty, logged, autohide, sessions>>

\* set_language: the wrapper is dropped, whatever it was doing.  Its callback cell
\* lives on in the result blocks of its tasks.
SetLanguage ==
    \E l \in Languages :
        /\ language' = l
        /\ recognizer' = NoRecognizer
        /\ spRet' = SpRet("set_language", "Ok", "none")
        /\ UNCHANGED <<speech_state, result_callback, task, wrappers, results, stopped,
                       pty, logged, autohide, sessions>>

\* The result block of a task of wrapper g is called with a result: a task that was
\* given audio can report one at any time, a cancelled one included.  The block calls
\* what its callback cell holds, which emits speech-recognition-result; with the cell
\* empty it does nothing.
TaskResult(g) ==
    /\ task[g] = "heard"
    /\ result_callback[g]
    /\ results < MaxResults
    /\ results' = results + 1
    /\ UNCHANGED <<speech_state, language, recognizer, result_callback, task, wrappers,
                   stopped, spRet, pty, logged, autohide, sessions>>

NextSpeech ==
    \/ StartRecognition
    \/ StopRecognition
    \/ GetState
    \/ SetLanguage
    \/ \E g \in Recognizers : TaskResult(g)

SpecSpeech == Init /\ [][NextSpeech]_vars

\* ============================================================= claude_logs
\* A line of a session file is a ClaudeLogEntry: its type and its timestamp.  The
\* timestamps are ISO 8601 strings of one format, which compare as the instants do;
\* they are numbered here in that order.  A session is appended to as it goes on, so
\* the lines of a file are in time order.
Times == 1..3
EntryTypes == {"user", "assistant"}
Entries == [type : EntryTypes, timestamp : Times]
FileLines == {<<>>} \cup [1..1 -> Entries] \cup [1..2 -> Entries]
\* is_sidechain is the isSidechain field of the first line.
FileBodies ==
    {b \in [is_sidechain : BOOLEAN, lines : FileLines] :
        /\ b.lines = <<>> => ~b.is_sidechain
        /\ \A i \in 1..Len(b.lines) : \A j \in i..Len(b.lines) :
              b.lines[i].timestamp <= b.lines[j].timestamp}
\* The n files of a directory; the session id is the file stem, unique in it.
SessionFiles(n) ==
    {[i \in 1..n |-> [session_id |-> i, is_sidechain |-> b[i].is_sidechain,
                      lines |-> b[i].lines]] : b \in [1..n -> FileBodies]}

Take(q, n) == SubSeq(q, 1, IF Len(q) < n THEN Len(q) ELSE n)

\* The timestamp of the first line of type user, None (0) when there is none.
RECURSIVE FirstUserTimestamp(_)
FirstUserTimestamp(q) ==
    IF q = <<>> THEN 0
    ELSE IF Head(q).type = "user" THEN Head(q).timestamp
    ELSE FirstUserTimestamp(Tail(q))

\* The SessionSummary pushed for file f.
Summary(f) ==
    [session_id |-> f.session_id,
     timestamp |-> FirstUserTimestamp(Take(f.lines, SummaryLines)),
     message_count |-> Len(f.lines)]

\* A file is skipped when its first line says isSidechain: true.
Listed(f) == ~(f.lines # <<>> /\ f.is_sidechain)

\* The loop over read_dir: one summary per listed file, in directory order.
RECURSIVE Summaries(_)
Summaries(fs) ==
    IF fs = <<>> THEN <<>>
    ELSE IF Listed(Head(fs)) THEN <<Summary(Head(fs))>> \o Summaries(Tail(fs))
    ELSE Summaries(Tail(fs))

\* x placed into q, sorted by timestamp descending, behind every element that does
\* not come after it: Option<String> order, None (0) below every Some.
RECURSIVE InsertDesc(_, _)
InsertDesc(q, x) ==
    IF q = <<>> THEN <<x>>
    ELSE IF Head(q).timestamp >= x.timestamp THEN <<Head(q)>> \o InsertDesc(Tail(q), x)
    ELSE <<x>> \o q

\* sessions.sort_by(|a, b| b.timestamp.cmp(&a.timestamp)): a stable sort.
RECURSIVE SortDesc(_)
SortDesc(q) ==
    IF q = <<>> THEN <<>>
    ELSE InsertDesc(SortDesc(SubSeq(q, 1, Len(q) - 1)), q[Len(q)])

\* list_claude_sessions; readable: the directory and its files can be read.
list_claude_sessions(fs, readable) ==
    IF ~readable THEN [res |-> "Err", sessions |-> <<>>]
    ELSE [res |-> "Ok", sessions |-> SortDesc(Summaries(fs))]

\* get_latest_session_for_cwd: the first element of the list, if any.
get_latest_session_for_cwd(fs, readable) ==
    LET l == list_claude_sessions(fs, readable)
    IN IF l.res = "Err" THEN [res |-> "Err", id |-> 0, timestamp |-> 0]
       ELSE IF l.sessions = <<>> THEN [res |-> "None", id |-> 0, timestamp |-> 0]
       ELSE [res |-> "Some", id |-> Head(l.sessions).session_id,
             timestamp |-> Head(l.sessions).timestamp]

GetLatest ==
    \E readable \in BOOLEAN :
        /\ latest' = get_latest_session_for_cwd(files, readable)
        /\ UNCHANGED <<files, pty, logged, autohide, speech>>

NextSessions == GetLatest

\* Any directory of up to MaxFiles session files.
InitSessions ==
    /\ PtyInit
    /\ logged = 0
    /\ AutohideInit
    /\ position = <<20, 50>>
    /\ SpeechInit
    /\ files \in UNION {SessionFiles(n) : n \in 0..MaxFiles}
    /\ latest = NoLatest

SpecSessions == InitSessions /\ [][NextSessions]_vars

\* When the session of file f was last active: the latest timestamp among its lines.
LastActivity(f) ==
    IF f.lines = <<>> THEN 0
    ELSE CHOOSE t \in {f.lines[i].timestamp : i \in 1..Len(f.lines)} :
            \A i \in 1..Len(f.lines) : f.lines[i].timestamp <= t

\* ============================================================ claims C1-C10
SpawnPcs == {"sp_lock", "sp_kill", "sp_wait", "sp_open", "sp_pair", "sp_writer",
             "sp_child", "sp_thread"}
KillPcs == {"k_lock", "k_kill", "k_wait", "k_pair", "k_writer"}
ReaderAlive(s) == rpc[s] \notin {"none", "done"}
NoSession == slotPair = 0 /\ slotWriter = 0 /\ slotChild = 0
\* Every spawn_pty call made so far either is still running or returned Ok: only a
\* call that returns Ok starts its session's reader.
AllSpawnsOk ==
    \A s \in Sessions :
        s < nextId => (\E c \in Callers : cnew[c] = s) \/ rpc[s] # "none"

\* C1: at most one Reader Loop thread is alive at any instant.
C1_AtMostOneReader == Cardinality({s \in Sessions : ReaderAlive(s)}) <= 1

\* C2: in a spawn_pty call that found a child installed, that child has been signalled
\* with kill and reaped by wait before the call spawns the new child and before it
\* starts the new Reader Loop.
C2_PreviousReapedFirst ==
    \A c \in Callers :
        (/\ cpc[c] \in SpawnPcs
         /\ ctaken[c] # 0
         /\ (child[cnew[c]] # "none" \/ cpc[c] = "sp_thread"))
        => signalled[ctaken[c]] /\ child[ctaken[c]] = "reaped"

\* A replacing spawn_pty is about to start the new reader, its new shell running.
C2_Witness ==
    \E c \in Callers :
        cpc[c] = "sp_thread" /\ ctaken[c] # 0 /\ child[cnew[c]] = "alive"

\* C3: every pty-output event comes from the reader of the current session: once a
\* later session's reader has been started, an earlier reader emits nothing more.
C3_OutputOnlyFromCurrent ==
    [][\A s \in Sessions : (rpc[s] = "emit" /\ rpc'[s] = "read") => lastStarted = s]_vars

\* C4: when a spawn_pty returns Ok after spawn_pty calls that all returned Ok, every
\* child but the newest has been killed and reaped, the newest is the installed one and
\* has not been signalled, so no two shells are alive.
C4_OneChildAfterRespawn ==
    (lastRet.op = "spawn" /\ lastRet.res = "Ok" /\ AllSpawnsOk) =>
        /\ slotChild = lastRet.sess
        /\ ~signalled[lastRet.sess]
        /\ \A s \in Sessions \ {lastRet.sess} :
               child[s] # "none" => signalled[s] /\ child[s] = "reaped"
        /\ {s \in Sessions : child[s] = "alive"} \subseteq {lastRet.sess}

\* Every spawn_pty so far returned Ok, the last of them replaced a session, and its
\* shell is the only one alive.
C4_Witness ==
    /\ lastRet.op = "spawn" /\ lastRet.res = "Ok" /\ lastRet.sess > 1
    /\ AllSpawnsOk
    /\ \A s \in Sessions : child[s] = (IF s = lastRet.sess THEN "alive" ELSE "reaped")

\* C5: no child handle is ever discarded unless its process has been signalled and
\* waited on.
C5_NoChildDiscardedUnreaped ==
    \A s \in Sessions :
        handle[s] \in {"dropped", "leaked"} => signalled[s] /\ child[s] = "reaped"

\* C6: the wait on a session's child handle is performed at most once.
C6_WaitOncePerChild == \A s \in Sessions : waits[s] <= 1

\* C7: when spawn_pty returns Err no partial session is installed: the three slots are
\* all empty or all hold the same session.
C7_SpawnErrAllOrNothing ==
    (lastRet.op = "spawn" /\ lastRet.res = "Err") =>
        \/ NoSession
        \/ slotPair # 0 /\ slotWriter = slotPair /\ slotChild = slotPair

\* C8: write_pty returns Ok only when the data went to the writer of an active session.
C8_WriteOkOnlyWhenForwarded ==
    (lastRet.op = "write" /\ lastRet.res = "Ok") => lastRet.sess # 0

\* C9: resize_pty returns Ok only when the window size of an active PTY was updated.
C9_ResizeOkOnlyWhenResized ==
    (lastRet.op = "resize" /\ lastRet.res = "Ok") => lastRet.sess # 0

\* C10: kill_pty always returns Ok and leaves no session installed, and a kill_pty
\* called with no session installed changes nothing in the manager or the processes.
C10_KillIdempotent ==
    /\ [](lastRet.op = "kill" => lastRet.res = "Ok" /\ NoSession)
    /\ [][\A c \in Callers :
            (cpc[c] \in KillPcs /\ cpc'[c] # cpc[c] /\ NoSession)
            => UNCHANGED <<slots, childLock, size, procs, readers>>]_vars

\* A kill_pty that found nothing to kill is about to return, after an earlier kill_pty
\* retired a session.
C10_Witness ==
    \E c \in Callers :
        /\ cpc[c] = "k_writer" /\ ctaken[c] = 0 /\ NoSession
        /\ \E s \in Sessions : signalled[s] /\ handle[s] = "dropped"

\* =========================================================== claims C11-C20
\* C11: when kill_pty returns, pty_pair, writer and child are all empty, and they stay
\* empty until a spawn_pty call installs a new session.
C11_EmptyAfterKillUntilSpawn ==
    [][/\ \A c \in Callers : (cpc[c] = "k_writer" /\ cpc'[c] = "idle") => NoSession'
       /\ (NoSession /\ \A c \in Callers : cpc[c] \notin SpawnPcs) => NoSession']_vars

\* A kill_pty has returned after retiring a session whose reader had been started, and
\* the slots are empty.
C11_Witness ==
    /\ lastRet.op = "kill" /\ NoSession
    /\ \E s \in Sessions : rpc[s] # "none" /\ signalled[s] /\ child[s] = "reaped"

\* C12: after kill_pty has returned, no pty-output event is emitted until a later
\* spawn_pty has succeeded; here, not while kill_pty is the last command to have
\* returned and no other call has begun.
C12_NoOutputAfterKill ==
    [][lastRet.op = "kill" => \A s \in Sessions : ~(rpc[s] = "emit" /\ rpc'[s] = "read")]_vars

\* C13: when spawn_pty is given an initial command, the command and its newline have
\* been written to the session's writer before the session's reader is started, hence
\* before its first read.
C13_CommandBeforeFirstRead ==
    logged # 0 => (rpc[logged] # "none" => written # "pending")

\* The reader of a session that was given an initial command has read its first chunk.
C13_Witness ==
    logged # 0 /\ written = "written" /\ Len(reads) = 1 /\ rpc[logged] = "emit"

\* C14: for each session the pty-output events are the successful non-empty reads, one
\* event per read and in read order: the events are always the reads made so far, less
\* at most the chunk in hand, and every chunk read has been emitted when the reader
\* performs its next read.
C14_EventsFollowReads ==
    logged # 0 =>
        /\ Len(events) <= Len(reads)
        /\ Len(reads) - Len(events) <= 1
        /\ events = SubSeq(reads, 1, Len(events))
        /\ rpc[logged] = "read" => events = reads

\* A reader has read and emitted MaxChunks chunks and is at its next read.
C14_Witness ==
    logged # 0 /\ rpc[logged] = "read" /\ Len(events) = MaxChunks /\ events = reads

\* C15: a resize_pty made while a session is producing output changes only the window
\* size of the installed PTY: the slots, the child mutex, the processes and every
\* reader's position are as they were before the call.
C15_ResizeTouchesOnlySize ==
    [][(lastRet'.op = "resize" /\ (lastRet' # lastRet \/ size' # size))
        => /\ UNCHANGED <<slots, childLock, procs, readers, cpc, cnew, ctaken, nextId>>
           /\ \A s \in Sessions : size'[s] # size[s] => s = slotPair]_vars

\* resize_pty has returned Ok for a session whose reader holds a chunk to emit.
C15_Witness ==
    /\ lastRet.op = "resize" /\ lastRet.res = "Ok" /\ lastRet.sess # 0
    /\ rpc[lastRet.sess] = "emit" /\ child[lastRet.sess] = "alive"
    /\ slotWriter = lastRet.sess /\ slotChild = lastRet.sess

\* C16: once a session's reader has left its loop and finished its tail, the manager
\* holds no session any more: none of the slots still holds that session, so that a
\* write_pty cannot reach its writer.
C16_IdleAfterReaderDone ==
    \A s \in Sessions :
        rpc[s] = "done" => slotPair # s /\ slotWriter # s /\ slotChild # s

\* C17: a toggle that returns Ok returns true exactly when the window is visible after
\* the call: the value returned equals is_visible() evaluated right after the call,
\* whether autohide is enabled or not.
C17_ToggleReturnsVisibility ==
    (ahRet.op = "toggle" /\ ahRet.res = "Ok") => ahRet.val = is_visible

\* C18: a disable that returns Ok leaves the window where it was before autohide was
\* enabled, whatever enable, toggle, show, hide and set_edge calls came in between.
\* Only disables made with a complete cache are looked at, which leaves out the runs
\* where the last enable could not read the window's position or size.
C18_DisableRestoresOriginal ==
    [][(/\ enabled /\ ~enabled' /\ ahRet'.res = "Ok"
        /\ original_position # NoPos /\ window_size # 0)
       => position' = home]_vars

\* C19: no kill_pty or spawn_pty call is held at the child mutex by a reader that
\* waits, with the mutex, for a shell that is running and that nobody has signalled:
\* such a call returns only if the shell happens to exit of its own accord. Only
\* readers whose own shell has been killed and reaped are looked at, so that the reader
\* left its loop at the end of its stream and not on an I/O error.
C19_NeverBlockedBehindReader ==
    \A c \in Callers : \A s \in Sessions :
        (/\ cpc[c] \in {"k_lock", "sp_lock"}
         /\ childLock = <<"reader", s>>
         /\ signalled[s] /\ child[s] = "reaped")
        => child[slotChild] # "alive" \/ signalled[slotChild]

\* C20: a reader that has left its loop waits on the child of its own session only,
\* never on the child of a session installed later.
C20_ReaderWaitsOwnChild ==
    \A s \in Sessions : rpc[s] = "wait" => slotChild = s

\* =========================================================== claims C21-C30
\* C21: when kill_pty returns, the reader thread of the session it killed has
\* terminated.
C21_ReaderDoneWhenKillReturns ==
    [][\A c \in Callers :
         (cpc[c] = "k_writer" /\ cpc'[c] = "idle" /\ ctaken[c] # 0)
         => rpc'[ctaken[c]] = "done"]_vars

\* C22: which session is installed changes atomically with respect to overlapping
\* calls: once every call has returned, and none of the spawn_pty calls failed, the
\* three slots are all empty or all hold the same session.
C22_SlotsAgreeAfterCalls ==
    ((\A c \in Callers : cpc[c] = "idle") /\ AllSpawnsOk) =>
        \/ NoSession
        \/ slotPair # 0 /\ slotWriter = slotPair /\ slotChild = slotPair

\* C23: in every state, those in the middle of spawn_pty and kill_pty included, a
\* writer in its slot comes with the pair it was taken from in the pty_pair slot.
C23_WriterWithinPair == slotWriter # 0 => slotPair = slotWriter

\* C24: a session's PTY pair and writer leave their slots, in kill_pty or in the
\* replacement done by spawn_pty, only after that session's child has been signalled and
\* reaped, overlapping calls included.
C24_HandlesReleasedAfterReap ==
    [][\A s \in Sessions :
         ((slotPair = s /\ slotPair' # s) \/ (slotWriter = s /\ slotWriter' # s))
         => signalled[s] /\ child[s] = "reaped"]_vars

\* C25: while its session's child is alive, a reader leaves its read loop only from a
\* read, on the end of the stream or a read error, and for no other reason.
C25_LoopEndsOnlyOnRead ==
    [][\A s \in Sessions :
         (child[s] = "alive" /\ rpc[s] \in {"read", "emit"} /\ rpc'[s] \notin {"read", "emit"})
         => rpc[s] = "read"]_vars

\* C26: a spawn_pty call that returns Ok has started exactly one reader thread, that of
\* its own session, a call that returns Err has started none, and nothing else ever
\* starts a reader.
C26_OneReaderPerOkSpawn ==
    [][LET started == {s \in Sessions : rpc[s] = "none" /\ rpc'[s] # "none"} IN
       /\ \A c \in Callers :
            (cpc[c] \in SpawnPcs /\ cpc'[c] = "idle") =>
                /\ lastRet'.res = "Ok" => started = {cnew[c]}
                /\ lastRet'.res = "Err" => started = {} /\ rpc[cnew[c]] = "none"
       /\ started # {} => \E c \in Callers : cpc[c] \in SpawnPcs /\ cpc'[c] = "idle"]_vars

\* One spawn_pty has returned Err and another Ok, and exactly one reader has been
\* started, that of the call that returned Ok.
C26_Witness ==
    /\ nextId = 3 /\ \A c \in Callers : cpc[c] = "idle"
    /\ lastRet.op = "spawn" /\ lastRet.res = "Ok"
    /\ {s \in Sessions : rpc[s] # "none"} = {lastRet.sess}

\* The mutexes of PtyState a thread holds between two of its steps. The pty_pair and
\* writer mutexes are locked and unlocked within one statement, hence within one step;
\* the steps that lock them are those taken from PairPcs and WriterPcs, and write_pty
\* and resize_pty, which begin and end in one step of an idle caller.
HeldByCaller(c) == IF childLock = <<"caller", c>> THEN {"child"} ELSE {}
HeldByReader(s) == IF childLock = <<"reader", s>> THEN {"child"} ELSE {}
PairPcs == {"sp_pair", "k_pair"}
WriterPcs == {"sp_writer", "k_writer"}

\* C27: a reader holds none of the manager's mutexes while it is in its loop, blocked
\* in the read or emitting, so that no command waits for a mutex behind a reader that
\* is waiting for data.
C27_ReaderReadsUnlocked ==
    \A s \in Sessions : rpc[s] \in {"read", "emit"} => HeldByReader(s) = {}

\* A kill_pty holds the child mutex, signalling the shell, while the reader of that
\* session is blocked in its read.
C27_Witness ==
    \E c \in Callers :
        /\ cpc[c] = "k_kill" /\ childLock = <<"caller", c>>
        /\ rpc[ctaken[c]] = "read" /\ child[ctaken[c]] = "alive"

\* C28: no thread holds two of the three mutexes at once: a caller about to lock the
\* pty_pair or the writer mutex, or one that is idle and may start write_pty or
\* resize_pty, does not hold the child mutex, and a reader holds at most the child
\* mutex.
C28_OneMutexAtATime ==
    /\ \A c \in Callers :
         cpc[c] \in PairPcs \cup WriterPcs \cup {"idle"} => HeldByCaller(c) = {}
    /\ \A s \in Sessions : Cardinality(HeldByReader(s)) <= 1

\* One kill_pty is about to lock the pty_pair mutex while the other thread's spawn_pty
\* holds the child mutex, waiting for the previous shell.
C28_Witness ==
    \E c, d \in Callers :
        cpc[c] = "k_pair" /\ cpc[d] = "sp_wait" /\ childLock = <<"caller", d>>

\* C29: whatever calls were made, and whether they succeeded or failed, the window
\* state is Hidden only while autohide is enabled.
C29_HiddenOnlyWhenEnabled == state = "Hidden" => enabled

\* C30: an enable or a disable that returns Err leaves config.enabled and the window
\* state as they were before the call.
C30_ErrLeavesStateAlone ==
    [][(ahRet'.op \in {"enable", "disable"} /\ ahRet'.res = "Err")
       => UNCHANGED <<enabled, state>>]_vars

\* =========================================================== claims C31-C34
\* C31: between calls of start_recognition, stop_recognition and set_language, the
\* manager state is Listening exactly when the manager holds a recognizer whose
\* is_listening flag is true.
C31_ListeningIffRecognizerListens ==
    speech_state = "Listening" <=> (recognizer # NoRecognizer /\ recognizer.is_listening)

\* C32: when the last call was a start_recognition that failed inside start_listening,
\* the recognizer is clean: no result callback and no audio tap installed, no request
\* and no task stored, is_listening false.
C32_FailedStartLeavesClean ==
    (spRet.op = "start_recognition" /\ spRet.from = "start_listening")
        => /\ ~result_callback[recognizer.id]
           /\ ~recognizer.tap
           /\ ~recognizer.recognition_request
           /\ ~recognizer.recognition_task
           /\ ~recognizer.is_listening

\* C33: once stop_recognition has returned Ok, and until a start_recognition returns
\* Ok, no speech-recognition-result event is emitted.  Checked for the steps taken
\* while the manager state is Idle as well, where no start has even set it.
C33_NoResultAfterStop ==
    [][(stopped /\ speech_state = "Idle") => results' = results]_vars

\* C34: the session get_latest_session_for_cwd returns is the most recently updated
\* one of the project, no listed session has later activity than it; and it returns
\* None only when no session of the project is listed.  The sessions compared with
\* the one returned are those whose summary has a timestamp, and another one than
\* the summary returned has: the others are listed in directory order.
C34_LatestIsMostRecentlyUpdated ==
    /\ latest.res = "Some" =>
           \A i \in 1..Len(files) :
               (Listed(files[i]) /\ Summary(files[i]).timestamp \notin {0, latest.timestamp})
                   => LastActivity(files[i]) <= LastActivity(files[latest.id])
    /\ latest.res = "None" => \A i \in 1..Len(files) : ~Listed(files[i])

====
